---- MODULE Spec2Model ----
(***************************************************************************)
(* Medinsight backend (src/BACKEND.txt): the document pipeline             *)
(*   upload -> extract -> structured analysis -> session context -> chat.  *)
(*                                                                         *)
(* Six specifications over one set of definitions:                         *)
(*   SpecAnalyzer  analyze_text_with_gemini / analyze_image_with_gemini    *)
(*                 as functions of (input, AI response), inputs drawn in   *)
(*                 AnalyzerInit;                                           *)
(*   SpecExtract   extract_text as a function of (path, file content),     *)
(*                 inputs drawn in ExtractInit;                            *)
(*   Spec          the three Flask routes /upload, /analyze, /api/chat     *)
(*                 acting on the disk and on one client's session;         *)
(*   SpecChat      /api/chat on sessions whose stored text has a length    *)
(*                 around the chat cap, sessions drawn in ChatInit;        *)
(*   SpecRace      one analyze request and one chat request of the same    *)
(*                 client in flight together, a step per session access;   *)
(*   SpecBooking   the Booking component of the frontend                   *)
(*                 (src/unnamed/part_000): its state and event handlers.   *)
(*                                                                         *)
(* Representation of data:                                                 *)
(*   - a Python value that may be None is a sequence of length 0 or 1;     *)
(*   - a document text is a run-length encoded string, a sequence of runs  *)
(*     [c |-> character, n |-> repetitions], adjacent runs differing in c, *)
(*     so that texts longer than the 100000 / 50000 character caps are     *)
(*     values of the model;                                                *)
(*   - an AI reply is a sequence of lexical tokens (see Tok).              *)
(***************************************************************************)
EXTENDS Integers, Sequences, FiniteSets, TLC

VARIABLES
    inp,      \* SpecAnalyzer, SpecExtract: the arguments of the call (and the AI's response)
    pc,       \* SpecAnalyzer, SpecExtract: "ready", "text_done", "image_done", "extract_done"
    out,      \* SpecAnalyzer, SpecExtract: what the call returned (and the AI requests issued)
    disk,     \* Spec: file path -> None | Some(file content)
    session,  \* Spec: the Flask session of the client (its two document keys)
    last,     \* Spec: the last call: its route, what it did, its response
    origin,   \* Spec: how the session's document context came to be what it is
    selectedDoctor,    \* SpecBooking: useState<Doctor | null>(null)
    bookingStep,       \* SpecBooking: useState(0)
    bookings,          \* SpecBooking: useState<BookingDetails[]>([])
    showConfirmation,  \* SpecBooking: useState(false)
    bookingDetails     \* SpecBooking: the form fields (the patient's name stands for all)

avars == <<inp, pc, out>>
rvars == <<disk, session, last, origin>>
bvars == <<selectedDoctor, bookingStep, bookings, showConfirmation, bookingDetails>>
vars == <<inp, pc, out, disk, session, last, origin,
          selectedDoctor, bookingStep, bookings, showConfirmation, bookingDetails>>

None == <<>>
Some(v) == <<v>>

\* the Booking component as it is mounted (src/unnamed/part_000, lines 68-80)
BookingMounted ==
    /\ selectedDoctor = None
    /\ bookingStep = 0
    /\ bookings = <<>>
    /\ showConfirmation = FALSE
    /\ bookingDetails = [name |-> ""]

Min(S) == CHOOSE m \in S : \A k \in S : m <= k

(***************************************************************************)
(* Bounds of the model.                                                    *)
(***************************************************************************)
MaxReplyLen == 4     \* tokens in an enumerated AI reply
MaxRuns == 2         \* runs in an enumerated document text

(***************************************************************************)
(* Document texts: Python str, run-length encoded.                         *)
(***************************************************************************)
max_chars == 100000

RECURSIVE TextLen(_)
TextLen(t) == IF t = <<>> THEN 0 ELSE Head(t).n + TextLen(Tail(t))

\* t[:k]
RECURSIVE Take(_, _)
Take(t, k) ==
    IF k <= 0 \/ t = <<>> THEN <<>>
    ELSE IF Head(t).n <= k THEN <<Head(t)>> \o Take(Tail(t), k - Head(t).n)
    ELSE <<[c |-> Head(t).c, n |-> k]>>

\* str.strip(): leading and trailing whitespace removed
RECURSIVE StripText(_)
StripText(t) ==
    IF t = <<>> THEN <<>>
    ELSE IF Head(t).c = " " THEN StripText(Tail(t))
    ELSE IF t[Len(t)].c = " " THEN StripText(SubSeq(t, 1, Len(t) - 1))
    ELSE t

\* the text analyze_text_with_gemini embeds in its prompt
TruncateForAnalysis_NoCut(text) == text

TruncateForAnalysis(text) ==
    IF TextLen(text) > max_chars THEN Take(text, max_chars) ELSE text

(***************************************************************************)
(* AI replies.  A reply text is a sequence of tokens, each standing for a  *)
(* lexical chunk of the reply:                                             *)
(*   "{"  an opening brace (inside an object: a key and the opening brace  *)
(*        of its object value)                                             *)
(*   "}"  a closing brace                                                  *)
(*   "m"  an object member whose value is a scalar or a list of scalars    *)
(*   "e"  the member "error": "<text naming neither AI nor Gemini>"        *)
(*   "n"  a JSON number on its own                                         *)
(*   "x"  prose                                                            *)
(*   "w"  whitespace                                                       *)
(*   "F"  the opening fence ```json                                        *)
(*   "B"  three backticks                                                  *)
(***************************************************************************)
Tok == {"{", "}", "m", "e", "n", "x", "w", "F", "B"}

\* str.strip() on a reply
RECURSIVE StripWs(_)
StripWs(s) ==
    IF s = <<>> THEN <<>>
    ELSE IF Head(s) = "w" THEN StripWs(Tail(s))
    ELSE IF s[Len(s)] = "w" THEN StripWs(SubSeq(s, 1, Len(s) - 1))
    ELSE s

\* \s* from position i: the first position at or after i that holds no whitespace
RECURSIVE SkipWs(_, _)
SkipWs(s, i) == IF i <= Len(s) /\ s[i] = "w" THEN SkipWs(s, i + 1) ELSE i

NoMatch == [found |-> FALSE, group |-> 0, str |-> <<>>]

\* ```json\s*(\{.*?\})\s*``` tried at position i
FencedAt(s, i) ==
    IF s[i] # "F" THEN NoMatch
    ELSE LET b == SkipWs(s, i + 1) IN
         IF b > Len(s) \/ s[b] # "{" THEN NoMatch
         ELSE LET J == {j \in (b + 1)..Len(s) :
                          /\ s[j] = "}"
                          /\ LET e == SkipWs(s, j + 1) IN
                               e <= Len(s) /\ s[e] \in {"B", "F"}} IN
              IF J = {} THEN NoMatch
              ELSE [found |-> TRUE, group |-> 1, str |-> SubSeq(s, b, Min(J))]

\* (\{.*?\}) tried at position i: from the brace to the first closing brace after it
BareAt(s, i) ==
    IF s[i] # "{" THEN NoMatch
    ELSE LET J == {j \in (i + 1)..Len(s) : s[j] = "}"} IN
         IF J = {} THEN NoMatch
         ELSE [found |-> TRUE, group |-> 2, str |-> SubSeq(s, i, Min(J))]

\* re.search(r"```json\s*(\{.*?\})\s*```|(\{.*?\})", s, re.DOTALL):
\* the leftmost position where an alternative matches, the first alternative first
json_match(s) ==
    LET I == {i \in 1..Len(s) : FencedAt(s, i).found \/ BareAt(s, i).found} IN
    IF I = {} THEN NoMatch
    ELSE LET i == Min(I) IN
         IF FencedAt(s, i).found THEN FencedAt(s, i) ELSE BareAt(s, i)

\* nesting depth after the first i tokens of c
RECURSIVE Depth(_, _)
Depth(c, i) ==
    IF i = 0 THEN 0
    ELSE Depth(c, i - 1) + (IF c[i] = "{" THEN 1 ELSE IF c[i] = "}" THEN -1 ELSE 0)

Canon(s) == SelectSeq(s, LAMBDA t : t # "w")

IsObjectText(c) ==
    /\ Len(c) >= 2
    /\ c[1] = "{"
    /\ \A i \in 1..Len(c) : c[i] \in {"{", "}", "m", "e"}
    /\ \A i \in 1..(Len(c) - 1) : Depth(c, i) >= 1
    /\ Depth(c, Len(c)) = 0

\* json.loads(s): the value (its tokens, whitespace dropped), or JSONDecodeError
json_loads(s) ==
    LET c == Canon(s) IN
    IF IsObjectText(c) \/ c = <<"n">> THEN [ok |-> TRUE, value |-> c]
    ELSE [ok |-> FALSE, value |-> <<>>]

(***************************************************************************)
(* Results of the analyzers: a parsed JSON value or an error record.       *)
(***************************************************************************)
Value(v) ==
    [tag |-> "value", value |-> v, error |-> "", has_raw |-> FALSE,
     raw_text |-> <<>>, has_safety |-> FALSE]

Error(msg) ==
    [tag |-> "error", value |-> <<>>, error |-> msg, has_raw |-> FALSE,
     raw_text |-> <<>>, has_safety |-> FALSE]

ErrorRaw(msg, raw) == [Error(msg) EXCEPT !.has_raw = TRUE, !.raw_text = raw]

ErrorSafety(msg) == [Error(msg) EXCEPT !.has_safety = TRUE]

\* isinstance(result, dict)
IsMapping(r) == r.tag = "error" \/ (r.tag = "value" /\ r.value # <<>> /\ r.value[1] = "{")

\* reply parsing of analyze_text_with_gemini (lines 225-247)
ParseTextReply(response_text) ==
    LET m == json_match(response_text) IN
    IF m.found
    THEN IF m.str # <<>>
         THEN IF json_loads(m.str).ok
              THEN Value(json_loads(m.str).value)
              ELSE ErrorRaw("AI response could not be parsed as JSON", response_text)
         ELSE ErrorRaw("Regex matched but failed to extract JSON content.", response_text)
    ELSE IF json_loads(response_text).ok
         THEN Value(json_loads(response_text).value)
         ELSE ErrorRaw("No valid JSON found in AI response", response_text)

SeeLogs == <<"See logs for raw text">>

\* reply parsing of analyze_image_with_gemini (lines 359-381)
ParseImageReply(response_text) ==
    LET m == json_match(response_text) IN
    IF m.found
    THEN IF m.str # <<>>
         THEN IF json_loads(m.str).ok
              THEN Value(json_loads(m.str).value)
              ELSE ErrorRaw("AI image response contained invalid JSON structure", SeeLogs)
         ELSE ErrorRaw("Regex matched but failed to extract JSON content.", SeeLogs)
    ELSE IF json_loads(response_text).ok
         THEN Value(json_loads(response_text).value)
         ELSE ErrorRaw("No valid JSON found in AI image response", SeeLogs)

(***************************************************************************)
(* The AI capability, gemini_model.generate_content: what one call gives.  *)
(*   kind "text"        response.text is there (and candidates[0] holds    *)
(*                      the same text, finish_reason STOP)                 *)
(*   kind "cand"        no response.text; candidates[0] with finish_reason *)
(*                      `finish`, and a text part iff has_part             *)
(*   kind "nocand"      no response.text, no candidates, prompt_feedback   *)
(*   kind "nofeedback"  as nocand, and reading prompt_feedback raises      *)
(*   kind "raise"       the call raises                                    *)
(***************************************************************************)
Resp(kind, reply, finish, has_part) ==
    [kind |-> kind, reply |-> reply, finish |-> finish, has_part |-> has_part]

TextResp(reply) == Resp("text", reply, "STOP", TRUE)

\* the prompt of one generate_content call
Prompt(kind, text, filename, message, truncated) ==
    [kind |-> kind, text |-> text, filename |-> filename, message |-> message,
     truncated |-> truncated]

\* what an analyzer call did: the generate_content requests it issued, the value it returned
Returned_Twice(requests, result) == [requests |-> requests \o requests, result |-> result]

Returned(requests, result) == [requests |-> requests, result |-> result]

analyze_text_with_gemini(text, resp) ==
    LET sent == TruncateForAnalysis(text)
        requests == <<Prompt("analysis_text", sent, None, None, FALSE)>>
    IN
    IF resp.kind = "raise"
    THEN Returned(requests, Error("Unexpected AI text processing error: "))
    ELSE IF resp.kind = "text"
    THEN Returned(requests, ParseTextReply(StripWs(resp.reply)))
    ELSE IF resp.kind = "cand"
    THEN IF resp.finish # "STOP"
         THEN Returned(requests, ErrorSafety("AI generation failed or was blocked. Reason: "))
         ELSE IF resp.has_part
              THEN Returned(requests,
                     Error("AI response structure unexpected, text found but parsing needs check."))
              ELSE Returned(requests,
                     Error("No text content received from Gemini for summary."))
    ELSE Returned(requests, Error("Unknown error or empty response from Gemini for summary."))

\* the PIL block: Image.open, convert('RGB'), save as JPEG, all without an exception
ImagePrepared_Always(image_data) == TRUE

ImagePrepared(image_data) == image_data.decodable /\ image_data.encodable

analyze_image_with_gemini(image_data, resp) ==
    LET requests == <<Prompt("analysis_image", <<>>, None, None, FALSE)>> IN
    IF ~ImagePrepared(image_data)
    THEN Returned(<<>>, Error("Failed to process image data: "))
    ELSE IF resp.kind = "raise"
    THEN Returned(requests, Error("Gemini API communication error: "))
    ELSE IF resp.kind = "nocand"
    THEN Returned(requests, ErrorSafety("Image analysis failed. Reason: "))
    ELSE IF resp.kind = "nofeedback"
    THEN Returned(requests, Error("Image analysis failed (No candidates received)."))
    ELSE IF resp.kind = "text" \/ resp.has_part
    THEN Returned(requests, ParseImageReply(StripWs(resp.reply)))
    ELSE IF resp.finish # "STOP"
    THEN Returned(requests,
           ErrorSafety("AI generation stopped unexpectedly () before text could be extracted."))
    ELSE Returned(requests, Error("Could not parse text content from Gemini response."))

(***************************************************************************)
(* SpecAnalyzer: the two analyzers on enumerated inputs.                   *)
(***************************************************************************)
Chars == {"a", "b"}
RunLens == {1, max_chars - 1, max_chars, max_chars + 1}
Runs == [c : Chars, n : RunLens]

TextInputs ==
    UNION {{t \in [1..k -> Runs] : \A i \in 1..(k - 1) : t[i].c # t[i + 1].c}
           : k \in 0..MaxRuns}

Replies == UNION {[1..k -> Tok] : k \in 0..MaxReplyLen}

SampleText == <<[c |-> "a", n |-> 30]>>

SampleReply == <<"{", "m", "}">>

OtherResponses ==
    {Resp("cand", r, f, p) : r \in {SampleReply}, f \in {"STOP", "SAFETY"}, p \in BOOLEAN}
    \cup {Resp(k, <<>>, "STOP", FALSE) : k \in {"nocand", "nofeedback", "raise"}}

GoodImage == [decodable |-> TRUE, encodable |-> TRUE]

BadImages == {[decodable |-> FALSE, encodable |-> TRUE], [decodable |-> TRUE, encodable |-> FALSE]}

AnalyzerInputs ==
    {[text |-> t, image_data |-> GoodImage, resp |-> r]
        : t \in TextInputs, r \in OtherResponses \cup {TextResp(SampleReply)}}
    \cup {[text |-> SampleText, image_data |-> GoodImage, resp |-> TextResp(r)]
        : r \in Replies}
    \cup {[text |-> SampleText, image_data |-> i, resp |-> r]
        : i \in BadImages, r \in OtherResponses \cup {TextResp(SampleReply)}}

NoOut == Returned(<<>>, Error(""))

RoutesIdle ==
    /\ disk = <<>>
    /\ session = <<>>
    /\ last = <<>>
    /\ origin = "initial"

AnalyzerInit ==
    /\ inp \in AnalyzerInputs
    /\ pc = "ready"
    /\ out = NoOut
    /\ RoutesIdle
    /\ BookingMounted

RunAnalyzeText ==
    /\ pc = "ready"
    /\ out' = analyze_text_with_gemini(inp.text, inp.resp)
    /\ pc' = "text_done"
    /\ UNCHANGED <<inp, rvars, bvars>>

RunAnalyzeImage ==
    /\ pc = "ready"
    /\ out' = analyze_image_with_gemini(inp.image_data, inp.resp)
    /\ pc' = "image_done"
    /\ UNCHANGED <<inp, rvars, bvars>>

AnalyzerNext == RunAnalyzeText \/ RunAnalyzeImage

SpecAnalyzer == AnalyzerInit /\ [][AnalyzerNext]_vars

Done == pc \in {"text_done", "image_done"}

\* the reply text the analyzer worked on, when the AI gave one
GotReply == Done /\ out.requests # <<>> /\ inp.resp.kind = "text"

IsErrorRecord(r) == r.tag = "error"

IsStructuredMapping(r) == r.tag = "value" /\ r.value # <<>> /\ r.value[1] = "{"

(***************************************************************************)
(* C7: for every AI reply text the analyzers return a structured JSON      *)
(* mapping or an explicit error record, and when the reply could not be    *)
(* parsed as JSON the error record's raw_text is the reply text (compared  *)
(* here up to the surrounding whitespace that strip() removes).            *)
(***************************************************************************)
C7_MappingOrErrorWithRawText ==
    GotReply =>
        /\ IsStructuredMapping(out.result) \/ IsErrorRecord(out.result)
        /\ IsErrorRecord(out.result) =>
              /\ out.result.has_raw
              /\ out.result.raw_text = StripWs(inp.resp.reply)

(***************************************************************************)
(* C8: for every JSON object J, the reply J wrapped in a fenced code block *)
(* and the reply J unfenced give the same analyzer result: both succeed    *)
(* and both return J.                                                      *)
(***************************************************************************)
Fenced(j) == <<"F", "w">> \o j \o <<"w", "B">>

C8_FencedSameAsUnfenced ==
    (GotReply /\ IsObjectText(inp.resp.reply)) =>
        LET j == inp.resp.reply
            fenced == IF pc = "text_done"
                      THEN analyze_text_with_gemini(inp.text, TextResp(Fenced(j))).result
                      ELSE analyze_image_with_gemini(inp.image_data, TextResp(Fenced(j))).result
        IN /\ out.result = Value(j)
           /\ fenced = Value(j)

(***************************************************************************)
(* C9: JSON recovery is an ordered chain with short-circuit evaluation:    *)
(* the parse of the fenced/matched block if that succeeds, otherwise the   *)
(* parse of the entire reply if that succeeds, and an error record only    *)
(* when every attempt failed; a reply that is a valid JSON object as a     *)
(* whole always yields that object.                                        *)
(***************************************************************************)
C9_OrderedChainFirstSuccessWins ==
    GotReply =>
        LET t == StripWs(inp.resp.reply)
            m == json_match(t)
            block == json_loads(m.str)
            whole == json_loads(t)
        IN /\ (m.found /\ block.ok) => out.result = Value(block.value)
           /\ (~(m.found /\ block.ok) /\ whole.ok) => out.result = Value(whole.value)
           /\ IsErrorRecord(out.result) => (~(m.found /\ block.ok) /\ ~whole.ok)
           /\ IsObjectText(t) => out.result = Value(t)

(***************************************************************************)
(* C10: the document text in the single AI request of analyzeText is the   *)
(* first min(len(text), cap) characters of the input, cap = 100000: never  *)
(* more than cap, and a text of length <= cap is sent unchanged.           *)
(***************************************************************************)
\* p is a prefix of t (both run-length encoded, adjacent runs differing)
RECURSIVE PrefixOf(_, _)
PrefixOf(p, t) ==
    \/ p = <<>>
    \/ /\ t # <<>>
       /\ Head(p).c = Head(t).c
       /\ \/ Head(p).n = Head(t).n /\ PrefixOf(Tail(p), Tail(t))
          \/ Head(p).n < Head(t).n /\ Len(p) = 1

MinOf(a, b) == IF a <= b THEN a ELSE b

C10_AnalyzeTextSendsCappedPrefix ==
    pc = "text_done" =>
        /\ Len(out.requests) = 1
        /\ LET sent == out.requests[1].text IN
             /\ TextLen(sent) = MinOf(TextLen(inp.text), max_chars)
             /\ PrefixOf(sent, inp.text)
             /\ TextLen(inp.text) <= max_chars => sent = inp.text

C10_Witness ==
    /\ pc = "text_done"
    /\ TextLen(inp.text) > max_chars
    /\ Len(out.requests) = 1
    /\ TextLen(out.requests[1].text) = max_chars
    /\ out.requests[1].text # inp.text

(***************************************************************************)
(* Files.  A filename is [stem, ext]; a path is [dir, name].  A file's     *)
(* content is given by what each reader makes of it:                       *)
(*   primary    the first text library for the extension (PyMuPDF for      *)
(*              .pdf, python-docx for .docx, pandas for .xlsx)             *)
(*   secondary  pdfplumber                                                 *)
(*   decodable  PIL can open the bytes as an image                         *)
(*   encodable  PIL can convert the image to RGB and save it as JPEG       *)
(*   imread, preprocess, ocr6, ocr3   the OCR chain (cv2, pytesseract)     *)
(***************************************************************************)
Ok(text) == [raises |-> FALSE, text |-> text]
Raises == [raises |-> TRUE, text |-> <<>>]

Content(primary, secondary, decodable) ==
    [primary |-> primary, secondary |-> secondary, decodable |-> decodable,
     encodable |-> TRUE, imread |-> decodable, preprocess |-> "ok", ocr6 |-> Raises,
     ocr3 |-> Raises]

UPLOAD_FOLDER == "uploads"

\* os.path.join(app.config["UPLOAD_FOLDER"], filename)
JoinPath(dir, filename) == [dir |-> dir, name |-> filename]

\* os.path.basename(file_path)
Basename(file_path) == file_path.name

\* pathlib.Path(file_path).suffix.lower()
Suffix(file_path) ==
    LET e == file_path.name.ext IN
    IF e = ".PDF" THEN ".pdf" ELSE IF e = ".PNG" THEN ".png" ELSE e

ImageExts == {".png", ".jpg", ".jpeg", ".bmp", ".tiff"}

\* is_image = ext in [".png", ".jpg", ".jpeg", ".bmp", ".tiff"]
is_image_ext_Never(ext) == FALSE

is_image_ext(ext) == ext \in ImageExts

\* cv2 preprocessing: the thresholded image, the plain grayscale one, or None
preprocess_image(content) ==
    IF content.preprocess = "ok" THEN Some("thresh")
    ELSE IF content.preprocess = "gray" THEN Some("gray")
    ELSE None

\* try: <body> except Exception: return ""
\* (an outcome is Ok(text), the value returned, or Raises, an exception that propagates)
Catch_Reraise(outcome) == outcome

Catch(outcome) == IF outcome.raises THEN Ok(<<>>) ELSE outcome

\* a run of readers: the library calls made, in order, and the outcome
\*   "imread"      cv2.imread
\*   "preprocess"  preprocess_image
\*   "psm6"        pytesseract.image_to_string, --psm 6 (single uniform block of text)
\*   "psm3"        pytesseract.image_to_string, --psm 3 (fully automatic)
\*   "fitz"        PyMuPDF            "pdfplumber"  pdfplumber
\*   "docx"        python-docx        "pandas"      pandas.read_excel
Run(calls, outcome) == [calls |-> calls, outcome |-> outcome]

\* the try block of extract_text_from_image (lines 100-114)
ocr_run_AlwaysRetry(content) ==
    IF ~content.imread THEN Run(<<"imread">>, Ok(<<>>))
    ELSE IF preprocess_image(content) = None THEN Run(<<"imread", "preprocess">>, Ok(<<>>))
    ELSE IF content.ocr6.raises THEN Run(<<"imread", "preprocess", "psm6">>, Raises)
    ELSE IF content.ocr3.raises
    THEN Run(<<"imread", "preprocess", "psm6", "psm3">>, Raises)
    ELSE Run(<<"imread", "preprocess", "psm6", "psm3">>,
             IF StripText(content.ocr6.text) # <<>> THEN Ok(StripText(content.ocr6.text))
             ELSE Ok(StripText(content.ocr3.text)))

ocr_run(content) ==
    IF ~content.imread THEN Run(<<"imread">>, Ok(<<>>))
    ELSE IF preprocess_image(content) = None THEN Run(<<"imread", "preprocess">>, Ok(<<>>))
    ELSE IF content.ocr6.raises THEN Run(<<"imread", "preprocess", "psm6">>, Raises)
    ELSE IF StripText(content.ocr6.text) # <<>>
    THEN Run(<<"imread", "preprocess", "psm6">>, Ok(StripText(content.ocr6.text)))
    ELSE IF content.ocr3.raises
    THEN Run(<<"imread", "preprocess", "psm6", "psm3">>, Raises)
    ELSE Run(<<"imread", "preprocess", "psm6", "psm3">>, Ok(StripText(content.ocr3.text)))

ocr_attempt(content) == ocr_run(content).outcome

\* the .pdf branch of extract_text (lines 127-144)
pdf_run_OcrWhenShort(content) ==
    LET first == IF ~content.primary.raises THEN Run(<<"fitz">>, content.primary)
                 ELSE IF ~content.secondary.raises
                 THEN Run(<<"fitz", "pdfplumber">>, content.secondary)
                 ELSE Run(<<"fitz", "pdfplumber">>, Ok(<<>>))
    IN IF TextLen(StripText(first.outcome.text)) < 50
       THEN Run(first.calls \o ocr_run(content).calls, Catch(ocr_run(content).outcome))
       ELSE first

pdf_run(content) ==
    IF ~content.primary.raises THEN Run(<<"fitz">>, content.primary)
    ELSE IF ~content.secondary.raises THEN Run(<<"fitz", "pdfplumber">>, content.secondary)
    ELSE Run(<<"fitz", "pdfplumber">>, Ok(<<>>))

extract_text_from_image(content) == Catch(ocr_attempt(content)).text

\* the try block of extract_text (lines 126-174): the text in extracted_text when the
\* block ends (the unsupported type's early return "" among them), or the exception
\* that leaves it
extract_attempt(file_path, content) ==
    LET ext == Suffix(file_path) IN
    IF ext = ".pdf"
    THEN pdf_run(content).outcome
    ELSE IF ext \in {".docx", ".xlsx"}
    THEN content.primary
    ELSE IF ext \in ImageExts
    THEN Ok(extract_text_from_image(content))
    ELSE Ok(<<>>)

\* the library calls extract_text makes, in order
readers_called(file_path, content) ==
    LET ext == Suffix(file_path) IN
    IF ext = ".pdf" THEN pdf_run(content).calls
    ELSE IF ext = ".docx" THEN <<"docx">>
    ELSE IF ext = ".xlsx" THEN <<"pandas">>
    ELSE IF ext \in ImageExts THEN ocr_run(content).calls
    ELSE <<>>

\* extract_text as its caller sees it: Ok(the string returned) or Raises
extract_text_outcome(file_path, content) ==
    LET r == Catch(extract_attempt(file_path, content)) IN
    IF r.raises THEN Raises ELSE Ok(StripText(r.text))

extract_text(file_path, content) == extract_text_outcome(file_path, content).text

(***************************************************************************)
(* The session: the two keys the routes use, each None or Some(value).     *)
(***************************************************************************)
EmptySession == [last_analyzed_text |-> None, last_analyzed_filename |-> None]

\* session.pop('last_analyzed_text', None); session.pop('last_analyzed_filename', None)
ClearContext_Skip(s) == s

ClearContext(s) == [s EXCEPT !.last_analyzed_text = None, !.last_analyzed_filename = None]

\* session['last_analyzed_text'] = ...; session['last_analyzed_filename'] = ...
StoreContext_TextOnly(s, text, filename) == [s EXCEPT !.last_analyzed_text = Some(text)]

StoreContext(s, text, filename) ==
    [s EXCEPT !.last_analyzed_text = Some(text), !.last_analyzed_filename = Some(filename)]

\* what chat_api takes as its document context: both values, when both are truthy
ChatContext_Absent(s) == None

ChatContext(s) ==
    IF /\ s.last_analyzed_text # None
       /\ s.last_analyzed_text[1] # <<>>
       /\ s.last_analyzed_filename # None
    THEN Some([text |-> s.last_analyzed_text[1], filename |-> s.last_analyzed_filename[1]])
    ELSE None

(***************************************************************************)
(* Responses of the routes.                                                *)
(***************************************************************************)
NoResult == Error("")

Response(op, status, kind, error, result, reply, trace, requests, ctx) ==
    [op |-> op, status |-> status, kind |-> kind, error |-> error, result |-> result,
     reply |-> reply, trace |-> trace, requests |-> requests, ctx |-> ctx,
     file_path |-> None, filename_arg |-> None, filename |-> None, extracted |-> <<>>,
     is_image |-> FALSE, ai |-> None, message |-> None]

\* an exception that leaves the handler: Flask answers 500 itself; the session
\* object is taken as the handler left it
Unhandled(op, trace, requests) ==
    Response(op, 500, "unhandled", "", NoResult, <<>>, trace, requests, None)

\* "AI" in error or "Gemini" in error
NamesAI(error) ==
    error \in {"Unexpected AI text processing error: ",
               "AI response could not be parsed as JSON",
               "No valid JSON found in AI response",
               "AI generation failed or was blocked. Reason: ",
               "AI response structure unexpected, text found but parsing needs check.",
               "No text content received from Gemini for summary.",
               "Unknown error or empty response from Gemini for summary.",
               "Gemini API communication error: ",
               "AI image response contained invalid JSON structure",
               "No valid JSON found in AI image response",
               "AI generation stopped unexpectedly () before text could be extracted.",
               "Could not parse text content from Gemini response."}

\* "error" in analysis_result, for a dict
HasErrorKey(r) ==
    \/ r.tag = "error"
    \/ \E i \in 1..Len(r.value) : r.value[i] = "e" /\ Depth(r.value, i) = 1

Did(l, event) == \E i \in 1..Len(l.trace) : l.trace[i] = event

(***************************************************************************)
(* POST /upload                                                            *)
(***************************************************************************)
upload_file(has_file, filename, content, save_ok) ==
    IF ~has_file
    THEN /\ last' = Response("upload", 400, "error", "No file part", NoResult, <<>>,
                             <<>>, <<>>, None)
         /\ UNCHANGED <<disk, session>>
    ELSE IF filename = None
    THEN /\ last' = Response("upload", 400, "error", "No selected file", NoResult, <<>>,
                             <<>>, <<>>, None)
         /\ UNCHANGED <<disk, session>>
    ELSE LET file_path == JoinPath(UPLOAD_FOLDER, filename[1]) IN
         IF save_ok
         THEN /\ disk' = [disk EXCEPT ![file_path] = Some(content)]
              /\ session' = ClearContext(session)
              /\ last' = [Response("upload", 200, "uploaded", "", NoResult, <<>>,
                                   <<"save", "clear">>, <<>>, None)
                            EXCEPT !.file_path = Some(file_path), !.filename = filename]
         ELSE /\ last' = Response("upload", 500, "error", "Failed to save file: ", NoResult,
                                  <<>>, <<>>, <<>>, None)
              /\ UNCHANGED <<disk, session>>

(***************************************************************************)
(* POST /analyze                                                           *)
(***************************************************************************)
\* the response once analysis_result is there (lines 488-496)
AnalyzeRespond(result, trace, requests) ==
    IF ~IsMapping(result)
    THEN Unhandled("analyze", trace, requests)
    ELSE IF HasErrorKey(result)
    THEN Response("analyze", IF result.tag = "error" /\ NamesAI(result.error) THEN 500 ELSE 400,
                  "analysis", result.error, result, <<>>, trace, requests, None)
    ELSE Response("analyze", 200, "analysis", "", result, <<>>, trace, requests, None)

\* not extracted_text or not extracted_text.strip()
NoReadableText_Never(extracted_text) == FALSE

NoReadableText(extracted_text) ==
    extracted_text = <<>> \/ StripText(extracted_text) = <<>>

analyze_report(has_body, file_path, filename_arg, resp) ==
    IF ~has_body
    THEN /\ last' = Unhandled("analyze", <<>>, <<>>)
         /\ UNCHANGED <<disk, session>>
    ELSE IF file_path = None \/ disk[file_path[1]] = None
    THEN /\ last' = [Response("analyze", 400, "error", "File not found on server", NoResult,
                              <<>>, <<>>, <<>>, None) EXCEPT !.file_path = file_path]
         /\ UNCHANGED <<disk, session>>
    ELSE LET path == file_path[1]
             content == disk[path][1]
             filename == IF filename_arg = None THEN Basename(path) ELSE filename_arg[1]
             is_image == is_image_ext(Suffix(path))
             cleared == ClearContext(session)
             tag(l) == [l EXCEPT !.file_path = file_path, !.filename_arg = filename_arg,
                                 !.filename = Some(filename), !.is_image = is_image,
                                 !.ai = IF l.requests = <<>> THEN None ELSE Some(resp)]
         IN
         /\ UNCHANGED disk
         /\ IF is_image
            THEN LET a == analyze_image_with_gemini([decodable |-> content.decodable,
                                                            encodable |-> content.encodable],
                                                           resp)
                     trace == <<"clear">> \o (IF a.requests = <<>> THEN <<>> ELSE <<"ai">>)
                 IN /\ session' = cleared
                    /\ last' = tag(AnalyzeRespond(a.result, trace, a.requests))
            ELSE LET extracted_text == extract_text(path, content) IN
                 IF NoReadableText(extracted_text)
                 THEN /\ session' = cleared
                      /\ last' = tag(Response("analyze", 400, "error",
                                   "No readable text could be extracted from the document.",
                                   NoResult, <<>>, <<"clear", "extract">>, <<>>, None))
                 ELSE LET a == analyze_text_with_gemini(extracted_text, resp) IN
                      /\ session' = StoreContext(cleared, extracted_text, filename)
                      /\ last' = [tag(AnalyzeRespond(a.result,
                                       <<"clear", "extract", "set", "ai">>, a.requests))
                                    EXCEPT !.extracted = extracted_text]

(***************************************************************************)
(* POST /api/chat                                                          *)
(***************************************************************************)
max_context_chars == 50000

\* not user_message: the key "message" is absent (None) or its value is ""
NoMessage_AbsentOnly(user_message) == user_message = None

NoMessage(user_message) == user_message = None \/ user_message[1] = ""

\* truncated_context: the text, and whether "\n... [Content Truncated]" follows it
TruncateForChat_AtCap(document_text) ==
    IF TextLen(document_text) >= max_context_chars
    THEN [text |-> Take(document_text, max_context_chars), truncated |-> TRUE]
    ELSE [text |-> document_text, truncated |-> FALSE]

TruncateForChat(document_text) ==
    IF TextLen(document_text) > max_context_chars
    THEN [text |-> Take(document_text, max_context_chars), truncated |-> TRUE]
    ELSE [text |-> document_text, truncated |-> FALSE]

\* the session as chat_api leaves it: the handler calls session.get only (lines 508-509)
session_after_get_Popped(s) == ClearContext(s)

session_after_get(s) == s

chat_api(has_body, user_message, resp) ==
    /\ UNCHANGED disk
    /\ session' = session_after_get(session)
    /\ IF ~has_body
       THEN last' = Unhandled("chat", <<>>, <<>>)
       ELSE IF NoMessage(user_message)
       THEN last' = [Response("chat", 400, "error", "No message provided", NoResult, <<>>,
                              <<>>, <<>>, None) EXCEPT !.message = user_message]
       ELSE LET ctx == ChatContext(session)
                prompt ==
                    IF ctx # None
                    THEN LET truncated_context == TruncateForChat(ctx[1].text) IN
                         Prompt("chat_document", truncated_context.text,
                                Some(ctx[1].filename), user_message,
                                truncated_context.truncated)
                    ELSE Prompt("chat_general", <<>>, None, user_message, FALSE)
                requests == <<prompt>>
                ok(text) == [Response("chat", 200, "chat", "", NoResult, text, <<"ai">>,
                                      requests, ctx)
                               EXCEPT !.ai = Some(resp), !.message = user_message]
                err(msg) == [Response("chat", 500, "error", msg, NoResult, <<>>, <<"ai">>,
                                      requests, ctx)
                               EXCEPT !.ai = Some(resp), !.message = user_message]
            IN
            last' =
              IF resp.kind = "raise"
              THEN err("An unexpected error occurred during chat: ")
              ELSE IF resp.kind = "text" THEN ok(resp.reply)
              ELSE IF resp.kind = "cand"
              THEN IF resp.finish # "STOP"
                   THEN err("Chat generation failed or was blocked. Reason: ")
                   ELSE IF resp.has_part THEN ok(StripWs(resp.reply))
                   ELSE err("No text content received from Gemini for chat.")
              ELSE err("No text content received from Gemini for chat.")

(***************************************************************************)
(* Spec: one client calling the three routes in any order.                 *)
(***************************************************************************)
report_pdf == [stem |-> "report", ext |-> ".pdf"]
notes_docx == [stem |-> "notes", ext |-> ".docx"]
scan_png == [stem |-> "scan", ext |-> ".PNG"]
alias_pdf == [stem |-> "alias", ext |-> ".pdf"]

TextA == <<[c |-> "a", n |-> 30]>>
TextB == <<[c |-> "b", n |-> 100001]>>
Blank == <<[c |-> " ", n |-> 3]>>

PdfA == Content(Ok(TextA), Raises, FALSE)
PdfScanned == Content(Raises, Ok(Blank), FALSE)
DocxB == Content(Ok(TextB), Raises, FALSE)
TextOcr == <<[c |-> "a", n |-> 7]>>
Png == [Content(Raises, Raises, TRUE) EXCEPT !.ocr6 = Ok(TextOcr)]
PngCorrupt == Content(Raises, Raises, FALSE)

Uploadables ==
    {<<report_pdf, PdfA>>, <<report_pdf, PdfScanned>>, <<notes_docx, DocxB>>,
     <<scan_png, Png>>, <<scan_png, PngCorrupt>>}

NeverUploaded == JoinPath("tmp", [stem |-> "ghost", ext |-> ".pdf"])

AllPaths == {JoinPath(UPLOAD_FOLDER, u[1]) : u \in Uploadables} \cup {NeverUploaded}

RouteReplies ==
    {<<"{", "m", "}">>, <<"{", "m", "{", "m", "}", "}">>, <<"{", "e", "}">>, <<"x">>, <<"n">>,
     <<>>}

RouteResponses ==
    {TextResp(r) : r \in RouteReplies}
    \cup {Resp("cand", <<>>, "SAFETY", FALSE), Resp("cand", SampleReply, "STOP", TRUE),
          Resp("nocand", <<>>, "STOP", FALSE), Resp("raise", <<>>, "STOP", FALSE)}

Messages == {None, Some(""), Some("what was found?")}

AnalyzersIdle ==
    /\ inp = <<>>
    /\ pc = "idle"
    /\ out = NoOut

NoCall == Response("none", 0, "none", "", NoResult, <<>>, <<>>, <<>>, None)

Init ==
    /\ disk = [p \in AllPaths |-> None]
    /\ session = EmptySession
    /\ last = NoCall
    /\ origin = "initial"
    /\ AnalyzersIdle
    /\ BookingMounted

\* History of the context, kept beside the session: a context is "fresh" (stored
\* when there was none), "replaced" (stored over another document's), or "survived"
\* (it outlived an analyze call that did not answer 200); no context is "initial",
\* "upload_cleared" or "analyze_cleared" (a call removed a context that was there).
Called ==
    /\ origin' =
         LET stored == session.last_analyzed_text # None
                       \/ session.last_analyzed_filename # None
         IN
         IF Did(last', "set")
         THEN IF stored /\ session.last_analyzed_text # Some(last'.extracted)
              THEN "replaced" ELSE "fresh"
         ELSE IF Did(last', "clear")
         THEN IF ~stored THEN origin
              ELSE IF last'.op = "upload" THEN "upload_cleared" ELSE "analyze_cleared"
         ELSE IF last'.op = "analyze" /\ last'.status # 200 /\ stored
         THEN "survived"
         ELSE origin
    /\ UNCHANGED <<avars, bvars>>

Upload ==
    /\ \/ upload_file(FALSE, None, PdfA, TRUE)
       \/ upload_file(TRUE, None, PdfA, TRUE)
       \/ \E u \in Uploadables, save_ok \in BOOLEAN :
              upload_file(TRUE, Some(u[1]), u[2], save_ok)
    /\ Called

Analyze ==
    /\ \/ analyze_report(FALSE, None, None, TextResp(<<>>))
       \/ \E file_path \in {None} \cup {Some(p) : p \in AllPaths},
             filename_arg \in {None, Some(alias_pdf)},
             resp \in RouteResponses :
              analyze_report(TRUE, file_path, filename_arg, resp)
    /\ Called

Chat ==
    /\ \/ chat_api(FALSE, None, TextResp(<<>>))
       \/ \E user_message \in Messages, resp \in RouteResponses :
              chat_api(TRUE, user_message, resp)
    /\ Called

Next == Upload \/ Analyze \/ Chat

Spec == Init /\ [][Next]_vars

\* a chat call that got as far as asking the AI
ChatAsked(l) == l.op = "chat" /\ l.requests # <<>>

Doc(text, filename) == [text |-> text, filename |-> filename]

(***************************************************************************)
(* C1: single-slot replacement.  When an analyze call stores document B    *)
(* over the stored context of another document A, the chat call that       *)
(* follows reads exactly (textB, filenameB): no text or filename of A.     *)
(***************************************************************************)
C1_ChatReadsOnlyTheSecondDocument ==
    [][(/\ last.op = "analyze"
        /\ Did(last, "set")
        /\ origin = "replaced"
        /\ ChatAsked(last'))
       => last'.ctx = Some(Doc(last.extracted, last.filename[1]))]_vars

C1_Witness ==
    /\ ChatAsked(last)
    /\ origin = "replaced"
    /\ last.ctx # None
    /\ last.requests[1].kind = "chat_document"

(***************************************************************************)
(* C2: in every reachable state, a present session context has a non-empty *)
(* text that was extracted from a non-image document, text and filename    *)
(* are present together, and an analyze call on an image leaves no context *)
(* set.                                                                    *)
(***************************************************************************)
NonImageTexts ==
    {extract_text(JoinPath(UPLOAD_FOLDER, u[1]), u[2]) :
        u \in {v \in Uploadables : Suffix(JoinPath(UPLOAD_FOLDER, v[1])) \notin ImageExts}}

C2_ContextIsNonEmptyTextOfNonImage ==
    /\ (session.last_analyzed_text # None) <=> (session.last_analyzed_filename # None)
    /\ session.last_analyzed_text # None =>
          /\ session.last_analyzed_text[1] # <<>>
          /\ StripText(session.last_analyzed_text[1]) # <<>>
          /\ session.last_analyzed_text[1] \in NonImageTexts
    /\ (last.op = "analyze" /\ last.file_path # None
          /\ Suffix(last.file_path[1]) \in ImageExts) =>
          /\ ~Did(last, "set")
          /\ (Did(last, "clear") => session = EmptySession)

C2_Witness ==
    /\ last.op = "analyze"
    /\ last.file_path # None
    /\ Suffix(last.file_path[1]) \in ImageExts
    /\ last.status = 200
    /\ origin = "analyze_cleared"
    /\ session = EmptySession

(***************************************************************************)
(* C3: a failed analysis never leaves stale context visible to chat: after *)
(* an analyze call whose handler answered with a non-200 outcome (file     *)
(* missing, empty extraction, AI error, image error) without storing its   *)
(* own document, the chat call that follows reads no document context.     *)
(***************************************************************************)
C3_NoStaleContextAfterFailedAnalyze ==
    [][(/\ last.op = "analyze"
        /\ last.status # 200
        /\ last.kind # "unhandled"
        /\ ~Did(last, "set")
        /\ ChatAsked(last'))
       => last'.ctx = None]_vars

(***************************************************************************)
(* C4: every upload call and every analyze call clears the context before  *)
(* it returns, as its first step, and within an analyze call the clear     *)
(* precedes extraction and the AI request.                                 *)
(***************************************************************************)
C4_EveryUploadAndAnalyzeClearsFirst ==
    last.op \in {"upload", "analyze"} =>
        /\ Did(last, "clear")
        /\ \A i, j \in 1..Len(last.trace) :
              (last.trace[i] = "clear" /\ last.trace[j] \in {"extract", "set", "ai"}) => i < j

(***************************************************************************)
(* C5: clear-then-get yields absent: the chat call that follows an upload  *)
(* call answered 200 reads no document context, whatever was stored before *)
(* the upload.                                                             *)
(***************************************************************************)
C5_ChatAfterUploadReadsNothing ==
    [][(/\ last.op = "upload"
        /\ last.status = 200
        /\ ChatAsked(last'))
       => /\ last'.ctx = None
          /\ last'.requests[1].kind = "chat_general"
          /\ last'.requests[1].text = <<>>
          /\ last'.requests[1].filename = None]_vars

C5_Witness ==
    /\ ChatAsked(last)
    /\ origin = "upload_cleared"
    /\ last.ctx = None
    /\ last.requests[1].kind = "chat_general"

(***************************************************************************)
(* C6: upload-then-analyze success path: for a non-image document with     *)
(* non-empty extracted text and an AI reply that is a JSON object, analyze *)
(* answers 200 with exactly that object and the session context holds the  *)
(* extracted text and the document's filename (the request's filename, or  *)
(* the basename of file_path when none is given).  Stated here for the     *)
(* objects that carry no "error" member of their own.                      *)
(***************************************************************************)
C6_JsonObjectReplyGives200AndContext ==
    (/\ last.op = "analyze"
     /\ ~last.is_image
     /\ last.extracted # <<>>
     /\ last.ai # None
     /\ last.ai[1].kind = "text"
     /\ IsObjectText(last.ai[1].reply)
     /\ \A i \in 1..Len(last.ai[1].reply) : last.ai[1].reply[i] # "e") =>
        /\ last.status = 200
        /\ last.result = Value(last.ai[1].reply)
        /\ ChatContext(session) =
              Some(Doc(last.extracted,
                       IF last.filename_arg = None THEN Basename(last.file_path[1])
                       ELSE last.filename_arg[1]))

(***************************************************************************)
(* SpecChat: /api/chat on a session as analyze leaves it (no context, or   *)
(* the stripped non-empty text of a document and its filename), the stored *)
(* text having a length around the chat cap.                               *)
(***************************************************************************)
ChatRunLens == {1, max_context_chars - 1, max_context_chars, max_context_chars + 1}

ChatTexts ==
    UNION {{t \in [1..k -> [c : Chars, n : ChatRunLens]] :
               \A i \in 1..(k - 1) : t[i].c # t[i + 1].c}
           : k \in 1..MaxRuns}

ChatSessions ==
    {EmptySession}
    \cup {StoreContext(EmptySession, t, f) : t \in ChatTexts, f \in {report_pdf, alias_pdf}}

ChatInit ==
    /\ disk = [p \in AllPaths |-> None]
    /\ session \in ChatSessions
    /\ last = NoCall
    /\ origin = IF session = EmptySession THEN "initial" ELSE "fresh"
    /\ AnalyzersIdle
    /\ BookingMounted

ChatNext == Chat

SpecChat == ChatInit /\ [][ChatNext]_vars

\* the session holds a document context (both keys)
Stored == session.last_analyzed_text # None /\ session.last_analyzed_filename # None

(***************************************************************************)
(* C11: chat truncation.  When the stored document text is longer than the *)
(* chat cap (50000) the prompt carries exactly its first cap characters    *)
(* followed by the truncation marker; when its length is <= cap (exactly   *)
(* cap included) the whole text is carried and no marker follows.          *)
(***************************************************************************)
C11_ChatCarriesCapThenMarker ==
    (ChatAsked(last) /\ Stored) =>
        LET t == session.last_analyzed_text[1]
            p == last.requests[1]
        IN /\ p.kind = "chat_document"
           /\ IF TextLen(t) > 50000
              THEN /\ p.truncated
                   /\ TextLen(p.text) = 50000
                   /\ PrefixOf(p.text, t)
              ELSE /\ ~p.truncated
                   /\ p.text = t

C11_Witness ==
    /\ ChatAsked(last)
    /\ Stored
    /\ TextLen(session.last_analyzed_text[1]) = 50001
    /\ last.requests[1].truncated
    /\ TextLen(last.requests[1].text) = 50000

(***************************************************************************)
(* C12: a chat call whose message is missing or empty fails with the 400   *)
(* error "No message provided", issues no AI request and leaves the        *)
(* session context unchanged.                                              *)
(***************************************************************************)
C12_NoMessageIs400WithoutRequest ==
    [][(/\ last'.op = "chat"
        /\ last'.kind # "unhandled"
        /\ last'.message \in {None, Some("")})
       => /\ last'.status = 400
          /\ last'.error = "No message provided"
          /\ last'.requests = <<>>
          /\ session' = session]_vars

C12_Witness ==
    /\ last.op = "chat"
    /\ last.message = Some("")
    /\ last.status = 400
    /\ last.requests = <<>>
    /\ Stored

(***************************************************************************)
(* C13: no retries.  Every chat call with a non-empty message issues       *)
(* exactly one AI request and every analyze call issues at most one,       *)
(* whether the request succeeds, is blocked, gives malformed output or     *)
(* raises.                                                                 *)
(***************************************************************************)
C13_OneRequestPerCall ==
    /\ (last.op = "chat" /\ last.message \notin {None, Some("")}) => Len(last.requests) = 1
    /\ last.op = "analyze" => Len(last.requests) <= 1

C13_Witness ==
    /\ last.op = "analyze"
    /\ last.ai # None
    /\ last.ai[1].kind = "text"
    /\ last.result.has_raw
    /\ last.status = 500
    /\ Len(last.requests) = 1

(***************************************************************************)
(* C14: chat prompt construction.  When the session context is present the *)
(* prompt sent to the AI holds the stored filename, the stored document    *)
(* text verbatim (up to truncation) and the user's message as given; when  *)
(* it is absent the prompt holds the user's message and no document text   *)
(* or filename.                                                            *)
(***************************************************************************)
C14_PromptHoldsContextAndMessage ==
    ChatAsked(last) =>
        LET p == last.requests[1] IN
        /\ Len(last.requests) = 1
        /\ p.message = last.message
        /\ p.message \notin {None, Some("")}
        /\ IF Stored
           THEN /\ p.kind = "chat_document"
                /\ p.filename = session.last_analyzed_filename
                /\ PrefixOf(p.text, session.last_analyzed_text[1])
                /\ p.truncated \/ p.text = session.last_analyzed_text[1]
           ELSE /\ p.kind = "chat_general"
                /\ p.text = <<>>
                /\ p.filename = None
                /\ ~p.truncated

C14_Witness ==
    /\ ChatAsked(last)
    /\ Stored
    /\ last.requests[1].message = Some("what was found?")
    /\ last.requests[1].filename = Some(alias_pdf)
    /\ last.requests[1].text = TextA
    /\ ~last.requests[1].truncated

(***************************************************************************)
(* C15: a chat call never reports empty success: when the AI generation    *)
(* was blocked or gave an empty text, the call answers with an error and a *)
(* status other than 200, never 200 with an empty response string.         *)
(***************************************************************************)
Blocked(resp) == resp.kind = "nocand" \/ (resp.kind = "cand" /\ resp.finish # "STOP")

C15_ChatNeverEmptySuccess ==
    (last.op = "chat" /\ last.ai # None) =>
        /\ last.status = 200 => last.reply # <<>>
        /\ (Blocked(last.ai[1]) \/ (last.ai[1].kind = "text" /\ last.ai[1].reply = <<>>))
              => (last.status # 200 /\ last.error # "")

(***************************************************************************)
(* C16: analyze_image_with_gemini on bytes that cannot be decoded (or that *)
(* cannot be re-encoded) returns the error record "Failed to process image *)
(* data: ..." and issues no AI request; an AI request is issued only after *)
(* decoding and re-encoding succeeded.                                     *)
(***************************************************************************)
C16_UndecodableImageNeverReachesAI ==
    pc = "image_done" =>
        /\ (~inp.image_data.decodable \/ ~inp.image_data.encodable) =>
              /\ out.requests = <<>>
              /\ out.result = Error("Failed to process image data: ")
        /\ out.requests # <<>> => (inp.image_data.decodable /\ inp.image_data.encodable)

C16_Witness ==
    /\ pc = "image_done"
    /\ ~inp.image_data.decodable
    /\ inp.resp.kind = "text"
    /\ out.requests = <<>>
    /\ out.result.error = "Failed to process image data: "

(***************************************************************************)
(* SpecExtract: extract_text on enumerated paths and file contents.        *)
(***************************************************************************)
ExtractExts == {".pdf", ".PDF", ".docx", ".xlsx", ".png", ".PNG", ".jpg", ".txt", ""}

ExtractPaths == {JoinPath(UPLOAD_FOLDER, [stem |-> "file", ext |-> e]) : e \in ExtractExts}

Padded == <<[c |-> " ", n |-> 2], [c |-> "a", n |-> 30], [c |-> " ", n |-> 1]>>

TextLong == <<[c |-> "b", n |-> 60]>>

ReadOutcomes == {Raises, Ok(<<>>), Ok(Blank), Ok(TextA), Ok(Padded), Ok(TextLong)}

ExtractContents ==
    [primary : ReadOutcomes, secondary : ReadOutcomes, decodable : {TRUE},
     encodable : {TRUE}, imread : BOOLEAN, preprocess : {"ok", "gray", "none"},
     ocr6 : ReadOutcomes, ocr3 : ReadOutcomes]

ExtractInit ==
    /\ inp \in [file_path : ExtractPaths, content : ExtractContents]
    /\ pc = "ready"
    /\ out = [raises |-> FALSE, text |-> <<>>, calls |-> <<>>]
    /\ RoutesIdle
    /\ BookingMounted

RunExtract ==
    /\ pc = "ready"
    /\ out' = [raises |-> extract_text_outcome(inp.file_path, inp.content).raises,
               text |-> extract_text_outcome(inp.file_path, inp.content).text,
               calls |-> readers_called(inp.file_path, inp.content)]
    /\ pc' = "extract_done"
    /\ UNCHANGED <<inp, rvars, bvars>>

ExtractNext == RunExtract

SpecExtract == ExtractInit /\ [][ExtractNext]_vars

\* every strategy the code has for the extension failed on this content
AllStrategiesFailed(ext, content) ==
    \/ ext = ".pdf" /\ content.primary.raises /\ content.secondary.raises
    \/ ext \in {".docx", ".xlsx"} /\ content.primary.raises
    \/ /\ ext \in ImageExts
       /\ \/ ~content.imread
          \/ content.preprocess = "none"
          \/ content.ocr6.raises
          \/ StripText(content.ocr6.text) = <<>> /\ content.ocr3.raises

KnownExts == {".pdf", ".docx", ".xlsx"} \cup ImageExts

(***************************************************************************)
(* C17: extract_text never throws to its caller: for every extension,      *)
(* supported or unknown, and every failure of an underlying strategy, it   *)
(* returns a string, and that string is "" when the extension is unknown   *)
(* and when the extraction failed internally.                              *)
(***************************************************************************)
C17_ExtractNeverThrows ==
    pc = "extract_done" =>
        LET ext == Suffix(inp.file_path) IN
        /\ ~out.raises
        /\ ext \notin KnownExts => out.text = <<>>
        /\ AllStrategiesFailed(ext, inp.content) => out.text = <<>>

C17_Witness ==
    /\ pc = "extract_done"
    /\ Suffix(inp.file_path) = ".docx"
    /\ inp.content.primary.raises
    /\ ~out.raises
    /\ out.text = <<>>

(***************************************************************************)
(* C18: every analyze call that ends because the AI refused or             *)
(* safety-blocked the request, replied with text that could not be parsed  *)
(* as JSON, or failed at transport answers with status 500, on the text    *)
(* path and on the image path alike.                                       *)
(***************************************************************************)
C18_AIFailuresAre500 ==
    (last.op = "analyze" /\ last.ai # None) =>
        LET ai == last.ai[1] IN
        (\/ Blocked(ai)
         \/ ai.kind = "raise"
         \/ ai.kind = "text" /\ last.kind = "analysis" /\ last.result.has_raw)
           => last.status = 500

(***************************************************************************)
(* C19: input and extraction errors are 400 and never reach the AI: an     *)
(* analyze call whose file is missing on disk answers 400, an analyze call *)
(* on a non-image document whose extracted text is empty answers 400 "No   *)
(* readable text ..."; in both cases no AI request is issued and the call  *)
(* sets no context.                                                        *)
(***************************************************************************)
C19_InputAndExtractionErrorsAre400 ==
    (last.op = "analyze" /\ last.kind # "unhandled") =>
        /\ (last.file_path = None \/ disk[last.file_path[1]] = None) =>
              /\ last.status = 400
              /\ last.error = "File not found on server"
              /\ last.requests = <<>>
              /\ ~Did(last, "set")
        /\ (/\ last.file_path # None
            /\ disk[last.file_path[1]] # None
            /\ Suffix(last.file_path[1]) \notin ImageExts
            /\ StripText(extract_text(last.file_path[1], disk[last.file_path[1]][1])) = <<>>) =>
              /\ last.status = 400
              /\ last.error = "No readable text could be extracted from the document."
              /\ last.requests = <<>>
              /\ ~Did(last, "set")
              /\ session = EmptySession

C19_Witness ==
    /\ last.op = "analyze"
    /\ last.status = 400
    /\ last.error = "No readable text could be extracted from the document."
    /\ last.requests = <<>>
    /\ origin = "analyze_cleared"
    /\ session = EmptySession

(***************************************************************************)
(* C20: all exceptions are caught at the route boundary: every upload,     *)
(* analyze and chat call ends with a response produced by the handler,     *)
(* with status 200, 400 or 500, whatever the AI replied (a reply whose     *)
(* JSON is a number included).  Stated here for the calls that carry a     *)
(* request body the handler can read.                                      *)
(***************************************************************************)
C20_NoExceptionEscapesTheHandler ==
    (last.op \in {"upload", "analyze", "chat"} /\ (last.op = "upload" \/ last.requests # <<>>)) =>
        /\ last.kind # "unhandled"
        /\ last.status \in {200, 400, 500}

(***************************************************************************)
(* C21: file_path is unique per upload: a successful upload call is given  *)
(* a file_path that no earlier successful upload was given, so it never    *)
(* overwrites the stored file of an earlier upload.                        *)
(***************************************************************************)
C21_UploadPathIsFresh ==
    [][(last'.op = "upload" /\ last'.status = 200)
       => /\ disk[last'.file_path[1]] = None
          /\ \A p \in AllPaths : disk[p] # None => disk'[p] = disk[p]]_vars

(***************************************************************************)
(* C22: every analyze response with status 200 carries a mapping of the    *)
(* fixed AnalysisResult schema of its path; a reply that parses as JSON    *)
(* but is no mapping of the schema is not answered 200.  FitsSchema is     *)
(* what the mappings of both schemas have in common: at least one member,  *)
(* every member a scalar or a list of scalars, no member "error".          *)
(***************************************************************************)
FitsSchema(v) ==
    /\ IsObjectText(v)
    /\ Len(v) >= 3
    /\ \A i \in 2..(Len(v) - 1) : v[i] = "m"

C22_Only200ForSchemaMappings ==
    Done =>
        LET r == AnalyzeRespond(out.result, <<"ai">>, out.requests) IN
        r.status = 200 => (r.result.tag = "value" /\ FitsSchema(r.result.value))

(***************************************************************************)
(* C27: tiered reply-text extraction in analyze_text_with_gemini.  When    *)
(* the AI result has no top-level text, a finish reason other than STOP    *)
(* gives a generation-blocked error with the safety metadata; with finish  *)
(* reason STOP and a text in the first candidate, that text goes through   *)
(* the same JSON recovery and a JSON object in it is the result returned.  *)
(***************************************************************************)
C27_CandidateTextIsParsed ==
    (pc = "text_done" /\ inp.resp.kind = "cand") =>
        /\ inp.resp.finish # "STOP" =>
              (IsErrorRecord(out.result) /\ out.result.has_safety)
        /\ (inp.resp.finish = "STOP" /\ inp.resp.has_part) =>
              out.result = ParseTextReply(StripWs(inp.resp.reply))
        /\ (inp.resp.finish = "STOP" /\ inp.resp.has_part
              /\ IsObjectText(Canon(inp.resp.reply)) /\ Len(Canon(inp.resp.reply)) = 3) =>
              out.result = Value(Canon(inp.resp.reply))

(***************************************************************************)
(* C24: a chat call only reads the session context: for every message and  *)
(* every AI outcome the session's stored text and filename after the call  *)
(* are those before it, and two successive chat calls that reach the AI    *)
(* are grounded in the same context.                                       *)
(***************************************************************************)
C24_ChatLeavesSessionAsItWas ==
    [][last'.op = "chat"
       => /\ session'.last_analyzed_text = session.last_analyzed_text
          /\ session'.last_analyzed_filename = session.last_analyzed_filename
          /\ (ChatAsked(last) /\ ChatAsked(last')) => last'.ctx = last.ctx]_vars

C24_Witness ==
    /\ ChatAsked(last)
    /\ last.ai[1].kind = "raise"
    /\ last.status = 500
    /\ last.ctx # None
    /\ Stored
    /\ ChatContext(session) = last.ctx

\* the reader k was called, and how many times
Ran(k) == \E i \in 1..Len(out.calls) : out.calls[i] = k

Times(k) == Cardinality({i \in 1..Len(out.calls) : out.calls[i] = k})

OcrCalls == {"imread", "preprocess", "psm6", "psm3"}

(***************************************************************************)
(* C25: PDF fallback chain.  For a PDF the primary reader is tried first;  *)
(* when it fails (a reader fails by raising) the secondary reader is       *)
(* tried; the result is "" when both fail; the secondary reader is never   *)
(* called when the primary one succeeded, and no OCR is ever run for a     *)
(* PDF, even when the text found is shorter than 50 characters.            *)
(***************************************************************************)
C25_PdfPrimaryThenSecondaryNoOcr ==
    (pc = "extract_done" /\ Suffix(inp.file_path) = ".pdf") =>
        LET c == inp.content IN
        /\ out.calls # <<>>
        /\ out.calls[1] = "fitz"
        /\ ~c.primary.raises =>
              /\ out.calls = <<"fitz">>
              /\ out.text = StripText(c.primary.text)
        /\ c.primary.raises =>
              /\ out.calls = <<"fitz", "pdfplumber">>
              /\ out.text = IF c.secondary.raises THEN <<>> ELSE StripText(c.secondary.text)
        /\ \A k \in OcrCalls : ~Ran(k)

C25_Witness ==
    /\ pc = "extract_done"
    /\ Suffix(inp.file_path) = ".pdf"
    /\ inp.content.primary.raises
    /\ out.calls = <<"fitz", "pdfplumber">>
    /\ out.text = TextA
    /\ TextLen(out.text) < 50
    /\ inp.content.imread

(***************************************************************************)
(* C26: OCR retry.  OCR runs first in the single-uniform-block mode (psm   *)
(* 6); the fully automatic mode (psm 3) runs exactly once and only if the  *)
(* first run gave empty text; the result is the first non-empty text, or   *)
(* "" if both runs are empty; OCR is skipped, with result "", when the     *)
(* image cannot be read or when preprocessing and its grayscale fallback   *)
(* both fail.                                                              *)
(***************************************************************************)
C26_OcrRetriesOnceOnEmpty ==
    (pc = "extract_done" /\ Suffix(inp.file_path) \in ImageExts) =>
        LET c == inp.content
            first == StripText(c.ocr6.text)
        IN
        /\ (~c.imread \/ c.preprocess = "none") =>
              /\ ~Ran("psm6")
              /\ ~Ran("psm3")
              /\ out.text = <<>>
        /\ (c.imread /\ c.preprocess # "none") =>
              /\ Times("psm6") = 1
              /\ Times("psm3") <= 1
              /\ Ran("psm3") <=> (~c.ocr6.raises /\ first = <<>>)
              /\ Ran("psm3") => out.calls[Len(out.calls)] = "psm3"
              /\ (~c.ocr6.raises /\ first # <<>>) => out.text = first
              /\ (~c.ocr6.raises /\ first = <<>> /\ ~c.ocr3.raises) =>
                    out.text = StripText(c.ocr3.text)
        /\ ~out.raises

C26_Witness ==
    /\ pc = "extract_done"
    /\ Suffix(inp.file_path) \in ImageExts
    /\ inp.content.preprocess = "gray"
    /\ inp.content.ocr6 = Ok(Blank)
    /\ out.calls = <<"imread", "preprocess", "psm6", "psm3">>
    /\ out.text = TextA

(***************************************************************************)
(* SpecRace: one analyze request and one chat request of the same client   *)
(* in flight together, with no lock, a step per session access.            *)
(*                                                                         *)
(* flask.session is the session object of the current request: the app     *)
(* sets SECRET_KEY and configures no server-side session store (lines 1,   *)
(* 25-31), so Flask opens the object from the cookie the request carries   *)
(* and sends it back as a cookie with the response.  Here                  *)
(*   session       is the cookie the client holds,                         *)
(*   inp           holds each request in flight: its session object and    *)
(*                 its arguments,                                          *)
(*   pc            is each handler's position,                             *)
(*   out           holds chat_api's locals document_text, filename and the *)
(*                 context its prompt was built from.                      *)
(***************************************************************************)
\* the object that `session` denotes inside a request: own is the object opened for
\* this request, other the object of the other request in flight
RequestSession_Shared(own, other) == other

RequestSession(own, other) == own

RaceDisk(pdf) ==
    [p \in AllPaths |->
        IF p = JoinPath(UPLOAD_FOLDER, report_pdf) THEN Some(pdf)
        ELSE IF p = JoinPath(UPLOAD_FOLDER, notes_docx) THEN Some(DocxB)
        ELSE IF p = JoinPath(UPLOAD_FOLDER, scan_png) THEN Some(Png)
        ELSE None]

NoAnalyze == [session |-> EmptySession, file_path |-> None, filename_arg |-> None]

NoChat == [session |-> EmptySession]

NoLocals == [document_text |-> None, filename |-> None, ctx |-> None]

RaceInit ==
    /\ disk \in {RaceDisk(PdfA), RaceDisk(PdfScanned)}
    /\ session = EmptySession
    /\ last = NoCall
    /\ origin = "initial"
    /\ inp = [analyze |-> NoAnalyze, chat |-> NoChat]
    /\ pc = [analyze |-> "idle", chat |-> "idle"]
    /\ out = NoLocals
    /\ BookingMounted

RaceFrame == UNCHANGED <<disk, last, origin, bvars>>

\* analyze_report: the request arrives with the client's cookie (line 435)
RaceAnalyzeOpen ==
    /\ pc.analyze = "idle"
    /\ \E file_path \in AllPaths, filename_arg \in {None, Some(alias_pdf)} :
          inp' = [inp EXCEPT !.analyze = [session |-> session, file_path |-> Some(file_path),
                                          filename_arg |-> filename_arg]]
    /\ pc' = [pc EXCEPT !.analyze = "check"]
    /\ UNCHANGED <<session, out>>
    /\ RaceFrame

\* lines 439-441
RaceAnalyzeCheck ==
    /\ pc.analyze = "check"
    /\ pc' = [pc EXCEPT !.analyze = IF disk[inp.analyze.file_path[1]] = None
                                    THEN "return" ELSE "pop_text"]
    /\ UNCHANGED <<inp, session, out>>
    /\ RaceFrame

\* line 451
RaceAnalyzePopText ==
    /\ pc.analyze = "pop_text"
    /\ inp' = [inp EXCEPT !.analyze.session.last_analyzed_text = None]
    /\ pc' = [pc EXCEPT !.analyze = "pop_filename"]
    /\ UNCHANGED <<session, out>>
    /\ RaceFrame

\* lines 452-456
RaceAnalyzePopFilename ==
    /\ pc.analyze = "pop_filename"
    /\ inp' = [inp EXCEPT !.analyze.session.last_analyzed_filename = None]
    /\ pc' = [pc EXCEPT !.analyze = IF is_image_ext(Suffix(inp.analyze.file_path[1]))
                                    THEN "ai" ELSE "extract"]
    /\ UNCHANGED <<session, out>>
    /\ RaceFrame

RaceExtracted == extract_text(inp.analyze.file_path[1], disk[inp.analyze.file_path[1]][1])

\* lines 471-476
RaceAnalyzeExtract ==
    /\ pc.analyze = "extract"
    /\ pc' = [pc EXCEPT !.analyze = IF NoReadableText(RaceExtracted)
                                    THEN "return" ELSE "set_text"]
    /\ UNCHANGED <<inp, session, out>>
    /\ RaceFrame

\* line 479
RaceAnalyzeSetText ==
    /\ pc.analyze = "set_text"
    /\ inp' = [inp EXCEPT !.analyze.session.last_analyzed_text = Some(RaceExtracted)]
    /\ pc' = [pc EXCEPT !.analyze = "set_filename"]
    /\ UNCHANGED <<session, out>>
    /\ RaceFrame

\* line 480 (filename: lines 437, 442-443)
RaceAnalyzeSetFilename ==
    /\ pc.analyze = "set_filename"
    /\ inp' = [inp EXCEPT !.analyze.session.last_analyzed_filename =
                 Some(IF inp.analyze.filename_arg = None
                      THEN Basename(inp.analyze.file_path[1])
                      ELSE inp.analyze.filename_arg[1])]
    /\ pc' = [pc EXCEPT !.analyze = "ai"]
    /\ UNCHANGED <<session, out>>
    /\ RaceFrame

\* lines 461, 485: the AI call, during which the request stays in flight
RaceAnalyzeAI ==
    /\ pc.analyze = "ai"
    /\ pc' = [pc EXCEPT !.analyze = "return"]
    /\ UNCHANGED <<inp, session, out>>
    /\ RaceFrame

\* the response reaches the client, the session object in its cookie
RaceAnalyzeReturn ==
    /\ pc.analyze = "return"
    /\ session' = inp.analyze.session
    /\ inp' = [inp EXCEPT !.analyze = NoAnalyze]
    /\ pc' = [pc EXCEPT !.analyze = "idle"]
    /\ UNCHANGED out
    /\ RaceFrame

\* chat_api: the request arrives with the client's cookie and a message (lines 502-505)
RaceChatOpen ==
    /\ pc.chat = "idle"
    /\ inp' = [inp EXCEPT !.chat = [session |-> session]]
    /\ pc' = [pc EXCEPT !.chat = "get_text"]
    /\ out' = NoLocals
    /\ UNCHANGED session
    /\ RaceFrame

\* line 508
RaceChatGetText ==
    /\ pc.chat = "get_text"
    /\ out' = [out EXCEPT !.document_text =
                 RequestSession(inp.chat.session, inp.analyze.session).last_analyzed_text]
    /\ pc' = [pc EXCEPT !.chat = "get_filename"]
    /\ UNCHANGED <<inp, session>>
    /\ RaceFrame

\* line 509
RaceChatGetFilename ==
    /\ pc.chat = "get_filename"
    /\ out' = [out EXCEPT !.filename =
                 RequestSession(inp.chat.session, inp.analyze.session).last_analyzed_filename]
    /\ pc' = [pc EXCEPT !.chat = "ask"]
    /\ UNCHANGED <<inp, session>>
    /\ RaceFrame

\* lines 515-554: the prompt is built from the two locals and sent
RaceChatAsk ==
    /\ pc.chat = "ask"
    /\ out' = [out EXCEPT !.ctx = ChatContext([last_analyzed_text |-> out.document_text,
                                               last_analyzed_filename |-> out.filename])]
    /\ pc' = [pc EXCEPT !.chat = "return"]
    /\ UNCHANGED <<inp, session>>
    /\ RaceFrame

\* the response reaches the client; chat_api did not modify its session object
RaceChatReturn ==
    /\ pc.chat = "return"
    /\ inp' = [inp EXCEPT !.chat = NoChat]
    /\ pc' = [pc EXCEPT !.chat = "idle"]
    /\ UNCHANGED <<out, session>>
    /\ RaceFrame

RaceNext ==
    \/ RaceAnalyzeOpen
    \/ RaceAnalyzeCheck
    \/ RaceAnalyzePopText
    \/ RaceAnalyzePopFilename
    \/ RaceAnalyzeExtract
    \/ RaceAnalyzeSetText
    \/ RaceAnalyzeSetFilename
    \/ RaceAnalyzeAI
    \/ RaceAnalyzeReturn
    \/ RaceChatOpen
    \/ RaceChatGetText
    \/ RaceChatGetFilename
    \/ RaceChatAsk
    \/ RaceChatReturn

SpecRace == RaceInit /\ [][RaceNext]_vars

\* the (text, filename) pairs that one analyze call writes, for the files on disk
RaceReadable ==
    {p \in AllPaths : /\ disk[p] # None
                      /\ ~is_image_ext(Suffix(p))
                      /\ ~NoReadableText(extract_text(p, disk[p][1]))}

RacePairs ==
    UNION {{Doc(extract_text(p, disk[p][1]), f) : f \in {Basename(p), alias_pdf}}
           : p \in RaceReadable}

(***************************************************************************)
(* C23: under every interleaving of an analyze call and a chat call of the *)
(* same session, with no lock and a step per session read, pop and write,  *)
(* the context a chat call uses is absent or is the complete (text,        *)
(* filename) pair written by one analyze call: never the text of one       *)
(* document with the filename of another.                                  *)
(***************************************************************************)
C23_ChatNeverMixesTwoDocuments ==
    pc.chat = "return" => (out.ctx = None \/ out.ctx[1] \in RacePairs)

C23_Witness ==
    /\ pc.chat = "return"
    /\ out.ctx # None
    /\ pc.analyze = "set_filename"
    /\ inp.analyze.session.last_analyzed_text # None
    /\ inp.analyze.session.last_analyzed_text # Some(out.ctx[1].text)
    /\ inp.analyze.session.last_analyzed_filename = None

(***************************************************************************)
(* SpecBooking: the Booking component (src/unnamed/part_000).  A handler   *)
(* can run only while the element that triggers it is rendered; every      *)
(* handler runs on the state of the latest render.  Of the form fields     *)
(* the patient's name stands for all: each is a `required` input copied    *)
(* into the record.                                                        *)
(***************************************************************************)
MaxBookings == 3     \* records in the bookings list

doctors ==
    {[id |-> 1, name |-> "Dr. Sarah Johnson"],
     [id |-> 2, name |-> "Dr. Michael Chen"],
     [id |-> 3, name |-> "Dr. Emily Wilson"]}

PatientNames == {"Ann", "Bob"}

\* what the component renders (lines 230, 244, 283)
View ==
    IF showConfirmation THEN "confirmation"
    ELSE IF bookingStep = 0 THEN "listing"
    ELSE "form"

BookingFrame == UNCHANGED <<avars, rvars>>

\* lines 87-91, the button "Book Appointment" of a doctor card (lines 272-277)
handleBooking_StepOnly(doctor) ==
    /\ View = "listing"
    /\ bookingStep' = 1
    /\ showConfirmation' = FALSE
    /\ UNCHANGED <<selectedDoctor, bookings, bookingDetails>>
    /\ BookingFrame

handleBooking(doctor) ==
    /\ View = "listing"
    /\ selectedDoctor' = Some(doctor)
    /\ bookingStep' = 1
    /\ showConfirmation' = FALSE
    /\ UNCHANGED <<bookings, bookingDetails>>
    /\ BookingFrame

\* the button "Back to Doctors" of the form (lines 369-375)
BackToDoctors ==
    /\ View = "form"
    /\ bookingStep' = 0
    /\ UNCHANGED <<selectedDoctor, bookings, showConfirmation, bookingDetails>>
    /\ BookingFrame

\* onChange of a form field (line 330)
setBookingDetails(name) ==
    /\ View = "form"
    /\ bookingDetails' = [bookingDetails EXCEPT !.name = name]
    /\ UNCHANGED <<selectedDoctor, bookingStep, bookings, showConfirmation>>
    /\ BookingFrame

\* lines 93-114, onSubmit of the form (line 291), whose fields are `required`
handleBookingSubmit ==
    /\ View = "form"
    /\ bookingDetails.name # ""
    /\ Len(bookings) < MaxBookings
    /\ LET newBooking ==
             [doctorName |-> IF selectedDoctor = None THEN "" ELSE selectedDoctor[1].name,
              patientName |-> bookingDetails.name]
       IN bookings' = bookings \o <<newBooking>>
    /\ showConfirmation' = TRUE
    /\ UNCHANGED <<selectedDoctor, bookingStep, bookingDetails>>
    /\ BookingFrame

\* lines 116-128, the button "Book Another Appointment" (lines 236-241)
resetForm ==
    /\ View = "confirmation"
    /\ bookingStep' = 0
    /\ selectedDoctor' = None
    /\ showConfirmation' = FALSE
    /\ bookingDetails' = [name |-> ""]
    /\ UNCHANGED bookings
    /\ BookingFrame

BookingInit ==
    /\ BookingMounted
    /\ AnalyzersIdle
    /\ RoutesIdle

BookingNext ==
    \/ \E doctor \in doctors : handleBooking(doctor)
    \/ BackToDoctors
    \/ \E name \in PatientNames \cup {""} : setBookingDetails(name)
    \/ handleBookingSubmit
    \/ resetForm

SpecBooking == BookingInit /\ [][BookingNext]_vars

(***************************************************************************)
(* C28: after any sequence of handleBooking, "Back to Doctors",            *)
(* handleBookingSubmit and resetForm, bookingStep = 1 implies that         *)
(* selectedDoctor is not null, so the form is submitted with a selected    *)
(* doctor only and every record of bookings has a non-empty doctorName;    *)
(* each submit appends exactly one record, and no operation removes or     *)
(* reorders the records there are.                                         *)
(***************************************************************************)
BookingInv ==
    /\ bookingStep = 1 => selectedDoctor # None
    /\ \A i \in 1..Len(bookings) : bookings[i].doctorName # ""

BookingStepOk ==
    /\ Len(bookings') >= Len(bookings)
    /\ SubSeq(bookings', 1, Len(bookings)) = bookings
    /\ (showConfirmation' /\ ~showConfirmation) =>
          /\ selectedDoctor # None
          /\ Len(bookings') = Len(bookings) + 1
          /\ bookings'[Len(bookings')].doctorName = selectedDoctor[1].name
    /\ ~(showConfirmation' /\ ~showConfirmation) => bookings' = bookings

C28_FormHasDoctorAndListOnlyGrows == []BookingInv /\ [][BookingStepOk]_vars

C28_Witness ==
    /\ showConfirmation
    /\ bookingStep = 1
    /\ selectedDoctor # None
    /\ Len(bookings) = 2
    /\ bookings[1].doctorName # bookings[2].doctorName
    /\ bookings[2].doctorName = selectedDoctor[1].name
====
